---- MODULE Spec2Model ----
(***************************************************************************)
(* Model of daily_briefing_abt.py: the behaviour tree                      *)
(*   Sequence(memory)[ Parallel(SuccessOnAll)[WeatherCollection,           *)
(*                                            NewsCollection],             *)
(*                     DataReadyCheck, BriefingSynthesis ]                 *)
(* driven by DailyBriefingAgent.generate_briefing over one shared_state    *)
(* dictionary.  Python dictionaries are records, None is the record        *)
(* [none |-> TRUE], a text is a sequence of pieces (<<>> is the empty      *)
(* string), a JSON value is a record [t, s] tagged with its type.          *)
(***************************************************************************)
EXTENDS Integers, Sequences, FiniteSets, TLC

\* ---------------------------------------------------------------- bounds
MaxBackendHeadlines == 4
MaxClock == 1

\* ------------------------------------------------------- program constants
NewsCount == 3

\* --------------------------------------------------------------- inputs
Locations == {"London", "Atlantis"}
Topics == {"World", "sports"}
Times == 0..MaxClock

\* ------------------------------------------------------- python values
None == [none |-> TRUE]
EmptyDict == [empty |-> TRUE]
IsNone(v) == "none" \in DOMAIN v
IsEmptyDict(v) == "empty" \in DOMAIN v
\* bool(v) for the values a slot can hold: None and {} are falsy
Truthy(v) == ~IsNone(v) /\ ~IsEmptyDict(v)

JStr(s) == [t |-> "str", s |-> s]
JNum(s) == [t |-> "num", s |-> s]
JNull == [t |-> "null", s |-> "None"]
\* str(v) as an f-string renders it
Render(v) == v.s
IsString(v) == v.t = "str"

\* str.lower() and str.title() on the strings that occur
Lower(s) ==
  CASE s = "Rainy" -> "rainy"
    [] s = "Clear" -> "clear"
    [] s = "Sunny" -> "sunny"
    [] s = "Foggy" -> "foggy"
    [] s = "Partly Cloudy" -> "partly cloudy"
    [] s = "World" -> "world"
    [] s = "N/A" -> "n/a"
    [] OTHER -> s

Title(s) ==
  CASE s = "world" -> "World"
    [] s = "sports" -> "Sports"
    [] s = "general" -> "General"
    [] OTHER -> s

Digits == <<"1", "2", "3", "4", "5", "6", "7", "8", "9">>
NumStr(n) == IF n = 0 THEN "0" ELSE Digits[n]

\* text.strip(): drop leading and trailing whitespace pieces
IsSpace(piece) == piece \in {" ", "\n"}
RECURSIVE LStrip(_)
LStrip(t) == IF t # <<>> /\ IsSpace(Head(t)) THEN LStrip(Tail(t)) ELSE t
RECURSIVE RStrip(_)
RStrip(t) ==
  IF t # <<>> /\ IsSpace(t[Len(t)]) THEN RStrip(SubSeq(t, 1, Len(t) - 1)) ELSE t
Strip(t) == RStrip(LStrip(t))

\* seq[:n]
Take(s, n) == SubSeq(s, 1, IF Len(s) < n THEN Len(s) ELSE n)

DictGet(d, k, default) == IF k \in DOMAIN d THEN d[k] ELSE default

\* ---------------------------------------------------------- WeatherAgent
\* what client.chat.completions.create does for the weather prompt:
\* it raises, answers text with no parsable JSON object, or answers an object
WeatherJsonSamples ==
  { [temperature |-> JNum("15"), condition |-> JStr("Rainy"), humidity |-> JStr("N/A")],
    [condition |-> JNull],
    EmptyDict }

WeatherBackend ==
  { [kind |-> "raise"], [kind |-> "nojson"] }
    \cup { [kind |-> "json", obj |-> o] : o \in WeatherJsonSamples }

fallback_data ==
  [ NewYork |-> [temperature |-> JNum("22"), condition |-> JStr("Partly Cloudy"), humidity |-> JNum("65")],
    London |-> [temperature |-> JNum("15"), condition |-> JStr("Rainy"), humidity |-> JNum("80")],
    Tokyo |-> [temperature |-> JNum("25"), condition |-> JStr("Sunny"), humidity |-> JNum("45")],
    SanFrancisco |-> [temperature |-> JNum("18"), condition |-> JStr("Foggy"), humidity |-> JNum("75")],
    Default |-> [temperature |-> JNum("20"), condition |-> JStr("Clear"), humidity |-> JNum("50")] ]

\* a lookup whose default is the entry of execute's default location
FallbackKey_defaultCity(location) ==
  CASE location = "New York" -> "NewYork"
    [] location = "London" -> "London"
    [] location = "Tokyo" -> "Tokyo"
    [] OTHER -> "SanFrancisco"

\* the key of fallback_data a location string selects
FallbackKey(location) ==
  CASE location = "New York" -> "NewYork"
    [] location = "London" -> "London"
    [] location = "Tokyo" -> "Tokyo"
    [] location = "San Francisco" -> "SanFrancisco"
    [] OTHER -> "Default"

get_weather(location, backend, now) ==
  IF backend.kind = "json"
  THEN [ location |-> location,
         temperature |-> DictGet(backend.obj, "temperature", JNum("20")),
         condition |-> DictGet(backend.obj, "condition", JStr("Clear")),
         humidity |-> DictGet(backend.obj, "humidity", JNum("50")),
         timestamp |-> now ]
  ELSE LET weather == fallback_data[FallbackKey(location)]
       IN [ location |-> location,
            temperature |-> weather.temperature,
            condition |-> weather.condition,
            humidity |-> weather.humidity,
            timestamp |-> now ]

\* ------------------------------------------------------------- NewsAgent
HeadlinePool == <<"b1", "b2", "b3", "b4", "b5", "b6">>
Reverse(s) == [i \in 1..Len(s) |-> s[Len(s) + 1 - i]]

\* the JSON arrays the backend may answer: up to MaxBackendHeadlines
\* headlines, in either order
BackendArrays ==
  { SubSeq(HeadlinePool, 1, k) : k \in 0..MaxBackendHeadlines }
    \cup { Reverse(SubSeq(HeadlinePool, 1, MaxBackendHeadlines)) }

NewsBackend ==
  { [kind |-> "raise"], [kind |-> "nojson"] }
    \cup { [kind |-> "json", arr |-> a] : a \in BackendArrays }

fallback_headlines ==
  [ technology |->
      << "AI Breakthrough: New Language Model Achieves Human-Level Performance",
         "Tech Giants Report Strong Q3 Earnings Despite Market Volatility",
         "Quantum Computing Milestone Reached by Leading Research Team",
         "Cybersecurity Concerns Rise as Attacks Become More Sophisticated",
         "New Smartphone Technology Promises Longer Battery Life" >>,
    world |->
      << "Global Climate Summit Announces New Sustainability Initiatives",
         "International Trade Agreements Show Positive Economic Impact",
         "Space Agency Successfully Launches New Mars Exploration Mission",
         "Diplomatic Relations Strengthen Between Allied Nations",
         "Education Reform Shows Promising Results in Recent Studies" >>,
    business |->
      << "Stock Markets Reach New Heights Amid Economic Recovery",
         "Renewable Energy Sector Sees Record Investment Growth",
         "Cryptocurrency Market Shows Signs of Stabilization",
         "Small Business Lending Programs See Increased Participation",
         "Remote Work Trends Continue to Shape Corporate Policies" >> ]

get_top_headlines(topic, count, backend, now) ==
  LET headlines ==
        IF backend.kind = "json"
        THEN Take(backend.arr, count)
        ELSE Take(DictGet(fallback_headlines, Lower(topic), fallback_headlines.world), count)
  IN [ topic |-> topic,
       headlines |-> headlines,
       count |-> Len(headlines),
       timestamp |-> now ]

\* ------------------------------------------------------ SynthesizerAgent
\* what the backend answers to the briefing prompt: it raises (or answers no
\* content, which raises on .strip()), or answers some text of its own
LLMTexts == { <<>>, <<" ">>, <<" ", "Good morning!", " ">> }
SynthBackend == { [kind |-> "raise"] } \cup { [kind |-> "text", text |-> t] : t \in LLMTexts }

\* the headline lines numbered from the last headline to the first
HeadlineLines_reversed(headlines) ==
  [i \in 1..Len(headlines) |->
     <<NumStr(i), ". ", headlines[Len(headlines) + 1 - i], "\n">>]

HeadlineLines(headlines) ==
  [i \in 1..Len(headlines) |-> <<NumStr(i), ". ", headlines[i], "\n">>]

RECURSIVE Flatten(_)
Flatten(ss) == IF ss = <<>> THEN <<>> ELSE Head(ss) \o Flatten(Tail(ss))

\* the template of the except branch; it raises AttributeError at
\* condition.lower() when condition is no string
FallbackTemplate(location, temperature, condition, humidity, topic, headlines) ==
  Strip(
    << "Daily Briefing - ", "<date>", "\n",
       "Weather Update for ", location, ":\n",
       "Temperature: ", Render(temperature), "\n",
       "Conditions: ", Render(condition), "\n" >>
    \o (IF humidity # JStr("N/A") THEN <<"Humidity: ", Render(humidity), "%">> ELSE <<>>)
    \o << "\n", "Top ", Title(topic), " News Headlines:\n" >>
    \o Flatten(HeadlineLines(headlines))
    \o << "Briefing Summary:\n", "Today's weather in ", location, " shows ",
          (IF condition # JStr("N/A") THEN Lower(Render(condition)) ELSE "current"),
          " conditions with a temperature of ", Render(temperature), "\n",
          "In ", topic, " news, we're seeing ", NumStr(Len(headlines)),
          " significant developments", "\n",
          "Stay informed and have a great day!", "\n" >> )

synthesize_briefing(weather_data, news_data, backend) ==
  LET location == DictGet(weather_data, "location", "Unknown")
      temperature == DictGet(weather_data, "temperature", JStr("N/A"))
      condition == DictGet(weather_data, "condition", JStr("N/A"))
      humidity == DictGet(weather_data, "humidity", JStr("N/A"))
      topic == DictGet(news_data, "topic", "general")
      headlines == DictGet(news_data, "headlines", <<>>)
  IN IF backend.kind = "text"
     THEN [raised |-> FALSE, text |-> Strip(backend.text)]
     ELSE IF condition # JStr("N/A") /\ ~IsString(condition)
          THEN [raised |-> TRUE, text |-> <<>>]
          ELSE [raised |-> FALSE,
                text |-> FallbackTemplate(location, temperature, condition,
                                          humidity, topic, headlines)]

\* ------------------------------------------------------------ the state
VARIABLES
  mocked,        \* FALSE: the agents are the reference tasks; TRUE: any SubAgent
  shared_state,  \* DailyBriefingAgent.shared_state
  agent_state,   \* SubAgent.state of each agent
  status,        \* py_trees status of each node
  pc,            \* where generate_briefing and its tick stand
  call_context,  \* the context dictionary handed to the executing agent
  calls,         \* how often each agent's execute was entered in this Run
  last_update,   \* the last SubAgentAction.update of this Run: what execute did
                 \* and whether line 383 stored its data
  result,        \* what the last generate_briefing returned
  states_view,   \* what get_agent_states returned since the last Run, if called
  fixed,         \* the agents' behaviour when it is deterministic: what each
                 \* backend (or mock) does for each location or topic
  prev           \* with deterministic agents: the outcome of the Run before

vars == <<mocked, shared_state, agent_state, status, pc, call_context, calls,
          last_update, result, states_view, fixed, prev>>

Agents == {"WeatherAgent", "NewsAgent", "SynthesizerAgent"}
ActionNodes == {"WeatherCollection", "NewsCollection", "BriefingSynthesis"}
Nodes == ActionNodes \cup {"DailyBriefingSequence", "DataGathering", "DataReadyCheck"}
Slots == {"weather_data", "news_data", "briefing"}

\* the tree _setup_behavior_tree builds
sub_agent(a) ==
  CASE a = "WeatherCollection" -> "WeatherAgent"
    [] a = "NewsCollection" -> "NewsAgent"
    [] a = "BriefingSynthesis" -> "SynthesizerAgent"

\* every Action constructed with context_key="briefing"
context_key_allBriefing(a) == "briefing"

context_key(a) ==
  CASE a = "WeatherCollection" -> "weather_data"
    [] a = "NewsCollection" -> "news_data"
    [] a = "BriefingSynthesis" -> "briefing"

ParallelChildren == <<"WeatherCollection", "NewsCollection">>
RootChildren == <<"DataGathering", "DataReadyCheck", "BriefingSynthesis">>

error_msg == <<"Failed to generate daily briefing">>
NoResult == [returned |-> FALSE, text |-> <<>>]
NoUpdate == [node |-> "-", raised |-> FALSE, task_status |-> "-", wrote |-> FALSE,
             fallback |-> FALSE, modified |-> FALSE]
NoView == [called |-> FALSE]
NotFixed == [on |-> FALSE]
NoPrev == [set |-> FALSE]

Init ==
  /\ mocked = FALSE
  /\ shared_state = [context |-> EmptyDict, weather_data |-> None,
                     news_data |-> None, briefing |-> None]
  /\ agent_state = [a \in Agents |-> EmptyDict]
  /\ status = [n \in Nodes |-> "INVALID"]
  /\ pc = [op |-> "idle", node |-> "-"]
  /\ call_context = EmptyDict
  /\ calls = [a \in Agents |-> 0]
  /\ last_update = NoUpdate
  /\ result = NoResult
  /\ states_view = NoView
  /\ fixed = NotFixed
  /\ prev = NoPrev

\* ------------------------------------------------ SubAgent.execute, per agent
\* what an agent's answer depends on: the location, the topic, nothing
KeyOf(agent, context) ==
  CASE agent = "WeatherAgent" -> DictGet(context, "location", "San Francisco")
    [] agent = "NewsAgent" -> DictGet(context, "topic", "technology")
    [] agent = "SynthesizerAgent" -> "-"

\* the behaviours an agent can show at this call: any of `all`, or the one
\* that is fixed for this input
Choices(agent, context, all) ==
  IF fixed.on THEN {fixed.beh[agent][KeyOf(agent, context)]} ELSE all

\* An outcome of execute: it raised, or it returned `result` after setting
\* self.state to `state`.
\* `fallback` tells whether the agent's except branch made the payload.
Raised(st) == [raised |-> TRUE, result |-> None, state |-> st, fallback |-> FALSE]
Returned(res, st) == [raised |-> FALSE, result |-> res, state |-> st, fallback |-> FALSE]
UsedFallback(outcome, backend) == [outcome EXCEPT !.fallback = (backend.kind # "json")]

WeatherAgent_execute(context, st) ==
  { LET weather_data == get_weather(DictGet(context, "location", "San Francisco"), b, now)
    IN UsedFallback(
         Returned([status |-> "success", data |-> weather_data, agent |-> "WeatherAgent"],
                  [weather_data |-> weather_data]), b)
    : b \in Choices("WeatherAgent", context, WeatherBackend), now \in Times }

NewsAgent_execute(context, st) ==
  { LET news_data == get_top_headlines(DictGet(context, "topic", "technology"),
                                       DictGet(context, "news_count", 3), b, now)
    IN UsedFallback(
         Returned([status |-> "success", data |-> news_data, agent |-> "NewsAgent"],
                  [news_data |-> news_data]), b)
    : b \in Choices("NewsAgent", context, NewsBackend), now \in Times }

SynthesizerAgent_execute(context, st) ==
  LET weather_data == DictGet(context, "weather_data", EmptyDict)
      news_data == DictGet(context, "news_data", EmptyDict)
  IN IF IsNone(weather_data) \/ IsNone(news_data)
     THEN { Raised(st) }   \* None has no .get
     ELSE { LET briefing == synthesize_briefing(weather_data, news_data, b)
            IN IF briefing.raised
               THEN Raised(st)
               ELSE [Returned([status |-> "success", data |-> [briefing |-> briefing.text],
                               agent |-> "SynthesizerAgent"],
                              [briefing |-> briefing.text])
                     EXCEPT !.fallback = (b.kind # "text")]
            : b \in Choices("SynthesizerAgent", context, SynthBackend) }

\* Any other implementation of the SubAgent interface: execute raises, returns
\* a result whose status is not "success", or returns "success" with a payload.
MockPayloadSeq(agent, context) ==
  CASE agent = "WeatherAgent" ->
         << get_weather(DictGet(context, "location", "San Francisco"), [kind |-> "raise"], 0) >>
    [] agent = "NewsAgent" ->
         << get_top_headlines(DictGet(context, "topic", "technology"), NewsCount,
                              [kind |-> "json", arr |-> Take(HeadlinePool, NewsCount)], 0) >>
    [] agent = "SynthesizerAgent" ->
         << [briefing |-> <<"mock briefing">>], [briefing |-> <<>>], EmptyDict >>

MockPayloads(agent, context) ==
  { MockPayloadSeq(agent, context)[i] : i \in 1..Len(MockPayloadSeq(agent, context)) }

MockBehaviours(agent) ==
  { [kind |-> "raise"], [kind |-> "error"] }
    \cup { [kind |-> "success", variant |-> i]
           : i \in 1..Len(MockPayloadSeq(agent, EmptyDict)) }

MockOutcome(agent, context, st, b) ==
  CASE b.kind = "raise" -> Raised(st)
    [] b.kind = "error" -> Returned([status |-> "error", data |-> None, agent |-> agent], st)
    [] b.kind = "success" ->
         Returned([status |-> "success", data |-> MockPayloadSeq(agent, context)[b.variant],
                   agent |-> agent], st)

Mock_execute(agent, context, st) ==
  { MockOutcome(agent, context, st, b)
    : b \in Choices(agent, context, MockBehaviours(agent)) }

execute(agent, context, st) ==
  IF mocked THEN Mock_execute(agent, context, st)
  ELSE CASE agent = "WeatherAgent" -> WeatherAgent_execute(context, st)
         [] agent = "NewsAgent" -> NewsAgent_execute(context, st)
         [] agent = "SynthesizerAgent" -> SynthesizerAgent_execute(context, st)

\* ------------------------------------------------------- the tree's control
At(op, node) == [op |-> op, node |-> node]
Idle == At("idle", "-")
ReadFinal == At("read_final", "-")

\* how a child starts: an Action and the Condition are ticked, the Parallel
\* ticks its first child
Enter(node) ==
  IF node = "DataGathering" THEN At("tick", ParallelChildren[1]) ELSE At("tick", node)

IndexOf(seq, x) == CHOOSE i \in 1..Len(seq) : seq[i] = x

\* a Sequence that starts over at its first child when a child fails
SequenceAfter_retry(node, st) ==
  LET i == IndexOf(RootChildren, node)
  IN IF st # "SUCCESS"
     THEN [pc |-> Enter(RootChildren[1]), root |-> status["DailyBriefingSequence"]]
     ELSE IF i = Len(RootChildren) THEN [pc |-> ReadFinal, root |-> "SUCCESS"]
     ELSE [pc |-> Enter(RootChildren[i + 1]), root |-> status["DailyBriefingSequence"]]

\* Sequence.tick after its child `node` returned `st`: the first child that is
\* not SUCCESS ends the tick with its status, the last SUCCESS ends it with
\* SUCCESS, otherwise the next child is entered
SequenceAfter(node, st) ==
  LET i == IndexOf(RootChildren, node)
  IN IF st # "SUCCESS" THEN [pc |-> ReadFinal, root |-> st]
     ELSE IF i = Len(RootChildren) THEN [pc |-> ReadFinal, root |-> "SUCCESS"]
     ELSE [pc |-> Enter(RootChildren[i + 1]), root |-> status["DailyBriefingSequence"]]

\* Sequence(memory=True) at the start of a tick: a Sequence that is RUNNING
\* goes on at the child it stopped at, any other starts at its first child
SequenceStart(st) ==
  IF st["DailyBriefingSequence"] = "RUNNING"
  THEN RootChildren[CHOOSE i \in 1..Len(RootChildren) : st[RootChildren[i]] = "RUNNING"]
  ELSE RootChildren[1]

\* ... and a Sequence that is not RUNNING stops its children: they are INVALID
\* until they are ticked again
SequenceReset(st) ==
  IF st["DailyBriefingSequence"] = "RUNNING" THEN st
  ELSE [n \in Nodes |-> IF n = "DailyBriefingSequence" THEN st[n] ELSE "INVALID"]

\* Parallel.tick ticks every child in list order, then decides
ParallelAfter(node) ==
  LET i == IndexOf(ParallelChildren, node)
  IN IF i = Len(ParallelChildren) THEN At("resolve", "DataGathering")
     ELSE At("tick", ParallelChildren[i + 1])

\* the policy SuccessOnOne in its place: one SUCCESS child is enough
SuccessOnAll_one(st) ==
  IF \E i \in 1..Len(ParallelChildren) : st[ParallelChildren[i]] = "SUCCESS" THEN "SUCCESS"
  ELSE "FAILURE"

\* ParallelPolicy.SuccessOnAll over the children's statuses
SuccessOnAll(st) ==
  IF \E i \in 1..Len(ParallelChildren) : st[ParallelChildren[i]] = "FAILURE" THEN "FAILURE"
  ELSE IF \A i \in 1..Len(ParallelChildren) : st[ParallelChildren[i]] = "SUCCESS" THEN "SUCCESS"
  ELSE "RUNNING"

\* ----------------------------------------------------------- the actions
\* a payload without the time of its making
StripTime(v) ==
  IF "timestamp" \notin DOMAIN v THEN v
  ELSE IF "headlines" \in DOMAIN v
       THEN [topic |-> v.topic, headlines |-> v.headlines, count |-> v.count]
       ELSE [location |-> v.location, temperature |-> v.temperature,
             condition |-> v.condition, humidity |-> v.humidity]

\* what a finished Run leaves: its context, the root's status, the returned
\* text and the three output slots
Snapshot ==
  [set |-> TRUE,
   context |-> shared_state.context,
   root |-> status["DailyBriefingSequence"],
   text |-> result.text,
   weather_data |-> StripTime(shared_state.weather_data),
   news_data |-> StripTime(shared_state.news_data),
   briefing |-> shared_state.briefing]

\* generate_briefing up to the first execute: install the context, then
\* behavior_tree.tick() enters the root Sequence, which (not RUNNING) resets
\* its children to INVALID and starts at its first child
generate_briefing(location, topic) ==
  /\ pc = Idle
  /\ shared_state' = [shared_state EXCEPT
                        !.context = [location |-> location, topic |-> topic,
                                     news_count |-> NewsCount]]
  /\ status' = SequenceReset(status)
  /\ pc' = Enter(SequenceStart(status))
  /\ calls' = [a \in Agents |-> 0]
  /\ last_update' = NoUpdate
  /\ result' = NoResult
  /\ states_view' = NoView
  /\ prev' = IF fixed.on /\ result.returned THEN Snapshot ELSE prev
  /\ UNCHANGED <<mocked, agent_state, call_context, fixed>>

\* an update that hands the stored context itself to the task
StoredContext_aliased(stored, handed) == handed

\* the context in shared_state while `handed`, made from it by copy(), is
\* changed by update or by the task: the copy is another dict, and the values
\* it shares with the stored one are strings and an int
StoredContext(stored, handed) == stored

\* the context a task leaves behind: the reference agents only read it, any
\* other task may assign to its keys
ContextAfterExecute(context) ==
  IF mocked
  THEN { context, [context EXCEPT !.location = "overwritten"],
         [context EXCEPT !.news_count = 0] }
  ELSE { context }

\* SubAgentAction.update, first half: build the context and call execute
SubAgentAction_update_call(a) ==
  /\ pc = At("tick", a)
  /\ LET context == shared_state.context
     IN call_context' =
          IF sub_agent(a) = "SynthesizerAgent"
          THEN [location |-> context.location, topic |-> context.topic,
                news_count |-> context.news_count,
                weather_data |-> shared_state.weather_data,
                news_data |-> shared_state.news_data]
          ELSE context
  /\ shared_state' = [shared_state EXCEPT
                        !.context = StoredContext(@, call_context')]
  /\ calls' = [calls EXCEPT ![sub_agent(a)] = @ + 1]
  /\ pc' = At("exec", a)
  /\ UNCHANGED <<mocked, agent_state, status, last_update, result,
                 states_view, fixed, prev>>

\* an update that reports a raise as RUNNING, to be tried again at the next tick
UpdateStatus_runningOnRaise(outcome) == IF outcome.raised THEN "RUNNING" ELSE "SUCCESS"

\* update without its except clause's FAILURE: a raise is reported as SUCCESS
UpdateStatus_hidesRaise(outcome) == "SUCCESS"

\* what update returns for an outcome of execute
UpdateStatus(outcome) == IF outcome.raised THEN "FAILURE" ELSE "SUCCESS"

\* an update that does not store what a task made from its fallback data
UpdateWrites_noFallback(outcome) ==
  ~outcome.raised /\ outcome.result.status = "success" /\ ~outcome.fallback

\* what update stores for an outcome of execute
UpdateWrites(outcome) == ~outcome.raised /\ outcome.result.status = "success"

\* a Parallel that stops ticking its children at the first FAILURE
AfterAction_failFast(a, st) ==
  IF a = "BriefingSynthesis" THEN SequenceAfter(a, st)
  ELSE IF st = "FAILURE"
       THEN [pc |-> At("resolve", "DataGathering"), root |-> status["DailyBriefingSequence"]]
       ELSE [pc |-> ParallelAfter(a), root |-> status["DailyBriefingSequence"]]

\* where the tick goes on after Action a returned st
AfterAction(a, st) ==
  IF a = "BriefingSynthesis" THEN SequenceAfter(a, st)
  ELSE [pc |-> ParallelAfter(a), root |-> status["DailyBriefingSequence"]]

\* SubAgentAction.update, second half: execute returns or raises
SubAgentAction_update_return(a) ==
  /\ pc = At("exec", a)
  /\ \E outcome \in execute(sub_agent(a), call_context, agent_state[sub_agent(a)]),
        context \in ContextAfterExecute(call_context) :
       LET st == UpdateStatus(outcome)
           next == AfterAction(a, st)
           stored == [shared_state EXCEPT !.context = StoredContext(@, context)]
       IN /\ agent_state' = [agent_state EXCEPT ![sub_agent(a)] = outcome.state]
          /\ shared_state' =
               IF UpdateWrites(outcome)
               THEN [stored EXCEPT ![context_key(a)] = outcome.result.data]
               ELSE stored
          /\ status' = [status EXCEPT ![a] = st, !["DailyBriefingSequence"] = next.root]
          /\ last_update' =
               [node |-> a, raised |-> outcome.raised,
                task_status |-> IF outcome.raised THEN "-" ELSE outcome.result.status,
                wrote |-> UpdateWrites(outcome),
                fallback |-> outcome.fallback,
                modified |-> context # call_context]
          /\ pc' = next.pc
  /\ call_context' = EmptyDict
  /\ UNCHANGED <<mocked, calls, result, states_view, fixed, prev>>

\* Parallel.tick after its last child: decide by the policy, hand to the root
DataGathering_resolve ==
  /\ pc = At("resolve", "DataGathering")
  /\ LET st == SuccessOnAll(status)
         next == SequenceAfter("DataGathering", st)
     IN /\ status' = [status EXCEPT !["DataGathering"] = st,
                                    !["DailyBriefingSequence"] = next.root]
        /\ pc' = next.pc
  /\ UNCHANGED <<mocked, shared_state, agent_state, call_context, calls,
                 last_update, result, states_view, fixed, prev>>

\* a Condition that lets the synthesis run only while there is no briefing yet
DataReady_firstTime(ss) ==
  Truthy(ss.weather_data) /\ Truthy(ss.news_data) /\ ~Truthy(ss.briefing)

\* a Condition that looks at the weather slot only
DataReady_weatherOnly(ss) == Truthy(ss.weather_data)

\* BriefingCondition.update
DataReady(ss) == Truthy(ss.weather_data) /\ Truthy(ss.news_data)

BriefingCondition_update ==
  /\ pc = At("tick", "DataReadyCheck")
  /\ LET st == IF DataReady(shared_state) THEN "SUCCESS" ELSE "FAILURE"
         next == SequenceAfter("DataReadyCheck", st)
     IN /\ status' = [status EXCEPT !["DataReadyCheck"] = st,
                                    !["DailyBriefingSequence"] = next.root]
        /\ pc' = next.pc
  /\ UNCHANGED <<mocked, shared_state, agent_state, call_context, calls,
                 last_update, result, states_view, fixed, prev>>

\* generate_briefing after the tick: read the briefing slot and return
FinalResult(ss) ==
  LET briefing_data == ss.briefing
  IN IF Truthy(briefing_data) /\ "briefing" \in DOMAIN briefing_data
     THEN [returned |-> TRUE, text |-> briefing_data.briefing]
     ELSE [returned |-> TRUE, text |-> error_msg]

generate_briefing_return ==
  /\ pc = ReadFinal
  /\ result' = FinalResult(shared_state)
  /\ pc' = Idle
  /\ UNCHANGED <<mocked, shared_state, agent_state, status, call_context, calls,
                 last_update, states_view, fixed, prev>>

\* a get_agent_states that hands out the states and empties them
get_agent_states_clears ==
  /\ pc = Idle
  /\ states_view' = [called |-> TRUE,
                     weather_agent |-> agent_state["WeatherAgent"],
                     news_agent |-> agent_state["NewsAgent"],
                     synthesizer_agent |-> agent_state["SynthesizerAgent"]]
  /\ agent_state' = [a \in Agents |-> EmptyDict]
  /\ UNCHANGED <<mocked, shared_state, status, pc, call_context, calls,
                 last_update, result, fixed, prev>>

\* get_agent_states, called between two Runs
get_agent_states ==
  /\ pc = Idle
  /\ states_view' = [called |-> TRUE,
                     weather_agent |-> agent_state["WeatherAgent"],
                     news_agent |-> agent_state["NewsAgent"],
                     synthesizer_agent |-> agent_state["SynthesizerAgent"]]
  /\ UNCHANGED <<mocked, shared_state, agent_state, status, pc, call_context, calls,
                 last_update, result, fixed, prev>>

Next ==
  \/ \E location \in Locations, topic \in Topics : generate_briefing(location, topic)
  \/ \E a \in ActionNodes : SubAgentAction_update_call(a)
  \/ \E a \in ActionNodes : SubAgentAction_update_return(a)
  \/ DataGathering_resolve
  \/ BriefingCondition_update
  \/ generate_briefing_return
  \/ get_agent_states

Spec == Init /\ [][Next]_vars

\* the same engine with arbitrary SubAgent implementations in place of the
\* three reference agents
InitMock ==
  /\ mocked = TRUE
  /\ shared_state = [context |-> EmptyDict, weather_data |-> None,
                     news_data |-> None, briefing |-> None]
  /\ agent_state = [a \in Agents |-> EmptyDict]
  /\ status = [n \in Nodes |-> "INVALID"]
  /\ pc = Idle
  /\ call_context = EmptyDict
  /\ calls = [a \in Agents |-> 0]
  /\ last_update = NoUpdate
  /\ result = NoResult
  /\ states_view = NoView
  /\ fixed = NotFixed
  /\ prev = NoPrev

SpecMock == InitMock /\ [][Next]_vars

\* the same engine with deterministic agents: each reference backend answers
\* the same way at every call, each mock does the same for the same location
\* or topic
FixedBehaviours(m) ==
  IF m
  THEN { [WeatherAgent |-> w, NewsAgent |-> n, SynthesizerAgent |-> y]
         : w \in [Locations -> MockBehaviours("WeatherAgent")],
           n \in [Topics -> MockBehaviours("NewsAgent")],
           y \in [{"-"} -> MockBehaviours("SynthesizerAgent")] }
  ELSE { [WeatherAgent |-> [k \in Locations |-> w],
          NewsAgent |-> [k \in Topics |-> n],
          SynthesizerAgent |-> [k \in {"-"} |-> y]]
         : w \in WeatherBackend, n \in NewsBackend, y \in SynthBackend }

InitDet ==
  /\ mocked \in BOOLEAN
  /\ fixed \in { [on |-> TRUE, beh |-> f] : f \in FixedBehaviours(mocked) }
  /\ shared_state = [context |-> EmptyDict, weather_data |-> None,
                     news_data |-> None, briefing |-> None]
  /\ agent_state = [a \in Agents |-> EmptyDict]
  /\ status = [n \in Nodes |-> "INVALID"]
  /\ pc = Idle
  /\ call_context = EmptyDict
  /\ calls = [a \in Agents |-> 0]
  /\ last_update = NoUpdate
  /\ result = NoResult
  /\ states_view = NoView
  /\ prev = NoPrev

SpecDet == InitDet /\ [][Next]_vars

\* ------------------------------------------------------------ the claims
Root == status["DailyBriefingSequence"]
RunEnded == pc = Idle /\ result.returned
RunStarted == pc = Enter(RootChildren[1])
\* a task is in flight from the call of its execute until update has its outcome
InFlight(a) == calls[sub_agent(a)] > 0 /\ status[a] = "INVALID"
Finished(a) == status[a] \in {"SUCCESS", "FAILURE"}

\* C1: a Run whose root tick did not return SUCCESS returns the failure
\* message, never briefing text, whatever earlier Runs did
C1_FailedRunReturnsError ==
  (RunEnded /\ Root # "SUCCESS") => result.text = error_msg

\* C2: every Run returns non-empty briefing text or the error result, never
\* an empty text
C2_NeverEmptyResult ==
  RunEnded => result.text # <<>>

\* C3: the Condition and the synthesis Action are evaluated only after both
\* gathering Actions finished; when the Condition is evaluated both
\* weather_data and news_data are populated; the synthesis task never gets an
\* empty prerequisite slot
C3_GatherBeforeGate ==
  /\ pc \in {At("tick", "DataReadyCheck"), At("tick", "BriefingSynthesis"),
             At("exec", "BriefingSynthesis")}
       => Finished("WeatherCollection") /\ Finished("NewsCollection")
  /\ pc = At("tick", "DataReadyCheck")
       => Truthy(shared_state.weather_data) /\ Truthy(shared_state.news_data)
  /\ pc = At("exec", "BriefingSynthesis")
       => Truthy(call_context.weather_data) /\ Truthy(call_context.news_data)

\* C4: when the Parallel or the Condition returned FAILURE, the synthesis
\* task was not invoked in that Run, its slot is unpopulated and the root
\* returned FAILURE
C4_ShortCircuit ==
  (RunEnded /\ (status["DataGathering"] = "FAILURE" \/ status["DataReadyCheck"] = "FAILURE"))
    => /\ calls["SynthesizerAgent"] = 0
       /\ status["BriefingSynthesis"] = "INVALID"
       /\ ~Truthy(shared_state.briefing)
       /\ Root = "FAILURE"

\* C5: an Action returns SUCCESS exactly when its task returned success, and
\* then has written its slot; when the task raised or returned a non-success
\* result it returns FAILURE and has not written
C5_ActionStatusIsTaskStatus ==
  last_update.node # "-" =>
    LET ok == ~last_update.raised /\ last_update.task_status = "success"
    IN /\ (status[last_update.node] = "SUCCESS") <=> ok
       /\ ok => last_update.wrote
       /\ ~ok => (status[last_update.node] = "FAILURE" /\ ~last_update.wrote)

\* the node whose failure ended the Run
FailedNode ==
  CASE status["WeatherCollection"] = "FAILURE" -> "WeatherCollection"
    [] status["NewsCollection"] = "FAILURE" -> "NewsCollection"
    [] status["DataReadyCheck"] = "FAILURE" -> "DataReadyCheck"
    [] status["BriefingSynthesis"] = "FAILURE" -> "BriefingSynthesis"
    [] OTHER -> "-"

\* the words by which a message can name a node: its name, its agent, its slot
NamesOf(node) ==
  CASE node = "WeatherCollection" -> {"WeatherCollection", "WeatherAgent", "weather_data"}
    [] node = "NewsCollection" -> {"NewsCollection", "NewsAgent", "news_data"}
    [] node = "DataReadyCheck" -> {"DataReadyCheck", "readiness condition"}
    [] node = "BriefingSynthesis" -> {"BriefingSynthesis", "SynthesizerAgent", "briefing"}
    [] OTHER -> {}

\* C6: the result of a failed Run identifies the cause: it names the
\* gathering task, the synthesis or the readiness condition that failed
C6_ErrorNamesCause ==
  (RunEnded /\ Root = "FAILURE") =>
    \E i \in 1..Len(result.text) : result.text[i] \in NamesOf(FailedNode)

\* C7: when a Run starts (context installed, root not yet ticked into a
\* task) the three output slots are empty
C7_SlotsClearedAtRunStart ==
  RunStarted => \A k \in Slots : ~Truthy(shared_state[k])

\* C8: when execute raises, update returns FAILURE, the shared state is as
\* before, nothing escapes: the tick goes on to its next step and the Run
\* returns a result
C8_step ==
  /\ (pc.op = "exec" /\ last_update'.raised)
       => /\ status'[pc.node] = "FAILURE"
          /\ shared_state' = shared_state
          /\ pc'.op \in {"tick", "resolve", "read_final"}
  /\ (pc = ReadFinal /\ pc' # pc) => (pc' = Idle /\ result'.returned)

C8_RaiseBecomesFailure == [][C8_step]_vars

C8_Witness ==
  RunEnded /\ last_update.raised /\ Root = "FAILURE" /\ result.text = error_msg

\* C9: with the reference tasks every Run ends with the root SUCCESS and
\* returns briefing text, not the failure message, whatever the backends do
C9_AllSuccess ==
  (~mocked /\ RunEnded) => (Root = "SUCCESS" /\ result.text # error_msg)

\* C10: the Parallel composite runs the two gathering tasks concurrently: it
\* has entered both before it has the outcome of either, neither waits for the
\* other to finish
C10_GatheringConcurrent ==
  \A a \in {"WeatherCollection", "NewsCollection"} :
    Finished(a) =>
      \A b \in {"WeatherCollection", "NewsCollection"} : calls[sub_agent(b)] > 0

\* what the code does instead: never two tasks in flight, weather before news
NeverBothInFlight ==
  /\ Cardinality({a \in ActionNodes : InFlight(a)}) <= 1
  /\ calls["NewsAgent"] > 0 => Finished("WeatherCollection")


\* the Action that owns each slot and the slot and agent of each Action, as
\* the claims name them
OwnerOf(k) ==
  CASE k = "weather_data" -> "WeatherCollection"
    [] k = "news_data" -> "NewsCollection"
    [] k = "briefing" -> "BriefingSynthesis"
    [] OTHER -> "-"

AgentOf(a) ==
  CASE a = "WeatherCollection" -> "WeatherAgent"
    [] a = "NewsCollection" -> "NewsAgent"
    [] a = "BriefingSynthesis" -> "SynthesizerAgent"
    [] OTHER -> "-"

\* a step in which a SubAgentAction took the outcome of its execute
UpdateReturns == pc.op = "exec" /\ pc' # pc

\* C12: within a Run a slot gets a value only in the update of the Action that
\* owns it, and an Action stores only into a slot that was empty until then
C12_step ==
  /\ \A k \in Slots :
       (shared_state'[k] # shared_state[k] /\ Truthy(shared_state'[k]))
         => pc = At("exec", OwnerOf(k))
  /\ (UpdateReturns /\ last_update'.wrote)
       => \A k \in Slots : OwnerOf(k) = pc.node => ~Truthy(shared_state[k])

C12_WriteOnce == [][C12_step]_vars

\* C16: the Parallel is SUCCESS only when both gathering Actions are SUCCESS
\* and FAILURE whenever one of them is FAILURE
C16_ParallelSuccessOnAll ==
  /\ status["DataGathering"] = "SUCCESS"
       => (status["WeatherCollection"] = "SUCCESS" /\ status["NewsCollection"] = "SUCCESS")
  /\ (status["DataGathering"] # "INVALID"
        /\ (status["WeatherCollection"] = "FAILURE" \/ status["NewsCollection"] = "FAILURE"))
       => status["DataGathering"] = "FAILURE"
  /\ status["DataGathering"] \in {"INVALID", "SUCCESS", "FAILURE"}

C16_Witness ==
  /\ status["DataGathering"] = "FAILURE"
  /\ status["WeatherCollection"] = "SUCCESS"
  /\ status["NewsCollection"] = "FAILURE"

\* C17: the Parallel has its status only after both children were executed
\* and finished; after a failed weather Action the news Action still runs and
\* a successful news task has its slot written
C17_ParallelTicksAll ==
  /\ status["DataGathering"] # "INVALID"
       => \A a \in {"WeatherCollection", "NewsCollection"} :
            Finished(a) /\ calls[AgentOf(a)] = 1
  /\ (last_update.node = "NewsCollection" /\ last_update.task_status = "success")
       => (last_update.wrote /\ Truthy(shared_state.news_data))

C17_Witness ==
  /\ status["DataGathering"] = "FAILURE"
  /\ status["WeatherCollection"] = "FAILURE"
  /\ status["NewsCollection"] = "SUCCESS"
  /\ last_update.node = "NewsCollection" /\ last_update.wrote
  /\ Truthy(shared_state.news_data)

\* C18: the Condition returns SUCCESS if and only if weather_data and
\* news_data are both populated, and writes nothing
C18_step ==
  (pc = At("tick", "DataReadyCheck") /\ pc' # pc)
    => /\ status'["DataReadyCheck"] =
            (IF ~IsNone(shared_state.weather_data) /\ ~IsEmptyDict(shared_state.weather_data)
                /\ ~IsNone(shared_state.news_data) /\ ~IsEmptyDict(shared_state.news_data)
             THEN "SUCCESS" ELSE "FAILURE")
       /\ shared_state' = shared_state

C18_ConditionIffPopulated == [][C18_step]_vars

C18_Witness ==
  /\ status["DataReadyCheck"] = "FAILURE"
  /\ Truthy(shared_state.weather_data)
  /\ ~Truthy(shared_state.news_data)

\* C19: in a Run every task is executed at most once, also when a task or the
\* Condition failed, and a Run that ended went through the tree once
C19_OneTraversal ==
  /\ \A a \in Agents : calls[a] <= 1
  /\ RunEnded => (calls["WeatherAgent"] = 1 /\ calls["NewsAgent"] = 1
                  /\ Root \in {"SUCCESS", "FAILURE"})

C19_Witness ==
  RunEnded /\ Root = "FAILURE" /\ status["DataReadyCheck"] = "FAILURE"
    /\ calls["SynthesizerAgent"] = 0

\* C20: a tick of an Action changes at most the Action's own slot and its own
\* agent's state: the other slots, the context and the other agents' states
\* stay as they were, whether the task succeeded or failed
C20_step ==
  (pc.op \in {"tick", "exec"} /\ pc.node \in ActionNodes)
    => /\ \A k \in Slots : OwnerOf(k) # pc.node => shared_state'[k] = shared_state[k]
       /\ shared_state'.context = shared_state.context
       /\ \A g \in Agents : g # AgentOf(pc.node) => agent_state'[g] = agent_state[g]

C20_ActionFrame == [][C20_step]_vars

C20_Witness ==
  /\ last_update.node = "BriefingSynthesis" /\ last_update.raised
  /\ Truthy(shared_state.weather_data) /\ Truthy(shared_state.briefing)


\* C15: get_agent_states between Runs changes no slot, no agent's state and
\* no node status, and returns for each agent the state it last recorded
C15_step ==
  (pc = Idle /\ pc' = Idle)
    => /\ UNCHANGED <<shared_state, agent_state, status, result>>
       /\ states_view'.called
       /\ states_view'.weather_agent = agent_state["WeatherAgent"]
       /\ states_view'.news_agent = agent_state["NewsAgent"]
       /\ states_view'.synthesizer_agent = agent_state["SynthesizerAgent"]

C15_QueryReadOnly == [][C15_step]_vars

C15_Witness ==
  /\ states_view.called
  /\ "weather_data" \in DOMAIN states_view.weather_agent
  /\ "briefing" \in DOMAIN states_view.synthesizer_agent
  /\ states_view.synthesizer_agent.briefing = shared_state.briefing.briefing


\* the fallback reading the claim names for a location: the table entry of a
\* listed location, the default pair 20 / Clear otherwise
ExpectedFallback(location) ==
  CASE location = "New York" ->
         [temperature |-> JNum("22"), condition |-> JStr("Partly Cloudy"), humidity |-> JNum("65")]
    [] location = "London" ->
         [temperature |-> JNum("15"), condition |-> JStr("Rainy"), humidity |-> JNum("80")]
    [] location = "Tokyo" ->
         [temperature |-> JNum("25"), condition |-> JStr("Sunny"), humidity |-> JNum("45")]
    [] location = "San Francisco" ->
         [temperature |-> JNum("18"), condition |-> JStr("Foggy"), humidity |-> JNum("75")]
    [] OTHER ->
         [temperature |-> JNum("20"), condition |-> JStr("Clear"), humidity |-> JNum("50")]

WeatherFellBack == last_update.node = "WeatherCollection" /\ last_update.fallback

\* C13 as stated: after a failed external call the whole weather payload is
\* a function of the location alone, the same at every call
C13_FallbackSamePayload ==
  WeatherFellBack =>
    \A now \in Times :
      shared_state.weather_data =
        get_weather(shared_state.context.location, [kind |-> "raise"], now)

\* C13 as amended: after a failed external call the location, temperature,
\* condition and humidity of the payload are a function of the location alone
\* (table entry, or the default 20 / Clear); only the timestamp differs
C13_FallbackFields ==
  WeatherFellBack =>
    LET w == shared_state.weather_data
        e == ExpectedFallback(shared_state.context.location)
    IN /\ DOMAIN w = {"location", "temperature", "condition", "humidity", "timestamp"}
       /\ w.location = shared_state.context.location
       /\ w.temperature = e.temperature
       /\ w.condition = e.condition
       /\ w.humidity = e.humidity
       /\ agent_state["WeatherAgent"] = [weather_data |-> w]

C13_Witness ==
  /\ WeatherFellBack
  /\ shared_state.context.location = "Atlantis"
  /\ shared_state.weather_data.temperature = JNum("20")
  /\ shared_state.weather_data.condition = JStr("Clear")
  /\ shared_state.weather_data.timestamp = MaxClock

Contains(text, piece) == \E i \in 1..Len(text) : text[i] = piece

\* the pieces hs occur in text in their order, from position start on
RECURSIVE InOrderFrom(_, _, _)
InOrderFrom(text, hs, start) ==
  IF hs = <<>> THEN TRUE
  ELSE \E i \in start..Len(text) :
         text[i] = Head(hs) /\ InOrderFrom(text, Tail(hs), i + 1)

BriefingHasData ==
  /\ Contains(result.text, shared_state.weather_data.location)
  /\ InOrderFrom(result.text, shared_state.news_data.headlines, 1)

\* C14 as stated: the text a successful Run returns contains the location of
\* the weather slot and every headline of the news slot, in the slot's order
C14_BriefingHasData ==
  (RunEnded /\ Root = "SUCCESS") => BriefingHasData

\* C14 as amended: it does when the synthesizer's fallback template wrote the
\* text (the backend call failed); the backend's own text is returned as it is
C14_TemplateHasData ==
  (RunEnded /\ Root = "SUCCESS" /\ last_update.fallback) => BriefingHasData

C14_Witness ==
  /\ RunEnded /\ Root = "SUCCESS" /\ last_update.fallback
  /\ shared_state.weather_data.location = "London"
  /\ Len(shared_state.news_data.headlines) = NewsCount
  /\ shared_state.news_data.headlines[1] = HeadlinePool[MaxBackendHeadlines]


\* C11: with deterministic agents, a Run that follows a Run with the same
\* context has the same root status, returns the same text and leaves the same
\* output slots, timestamps apart
C11_RunIdempotent ==
  (fixed.on /\ RunEnded /\ prev.set /\ prev.context = shared_state.context)
    => /\ prev.root = Root
       /\ prev.text = result.text
       /\ prev.weather_data = StripTime(shared_state.weather_data)
       /\ prev.news_data = StripTime(shared_state.news_data)
       /\ prev.briefing = shared_state.briefing

\* a second Run with the same context that returned a briefing, after the
\* first Run's timestamps
C11_Witness ==
  /\ fixed.on /\ RunEnded /\ prev.set /\ prev.context = shared_state.context
  /\ Root = "SUCCESS" /\ result.text # error_msg /\ result.text # <<>>
  /\ shared_state.weather_data.timestamp = MaxClock


\* C21: from the moment generate_briefing installs the context until it
\* returns, the stored context keeps the keys and values it was installed
\* with, whatever update adds to the copy and whatever the task does to it
InstalledContexts ==
  { [location |-> l, topic |-> t, news_count |-> NewsCount]
    : l \in Locations, t \in Topics }

C21_step ==
  /\ (pc = Idle /\ pc' # Idle) => shared_state'.context \in InstalledContexts
  /\ pc # Idle => shared_state'.context = shared_state.context

C21_ContextReadOnly == [][C21_step]_vars

\* the synthesis task was handed the context with the two data keys, changed
\* it, and the Run has returned
C21_Witness ==
  /\ RunEnded
  /\ last_update.node = "BriefingSynthesis" /\ last_update.modified
  /\ shared_state.context \in InstalledContexts


\* C22: a Run ends with the root SUCCESS or FAILURE, never RUNNING; the next
\* Run starts at the first child with every child INVALID again, and reaches
\* the Condition only after both gathering tasks were executed in that Run
C22_step ==
  /\ (pc' = Idle /\ result'.returned) => Root' \in {"SUCCESS", "FAILURE"}
  /\ (pc = Idle /\ pc' # Idle)
       => /\ pc' = At("tick", "WeatherCollection")
          /\ \A n \in Nodes \ {"DailyBriefingSequence"} : status'[n] = "INVALID"
  /\ pc' = At("tick", "DataReadyCheck")
       => /\ calls'["WeatherAgent"] = 1 /\ calls'["NewsAgent"] = 1
          /\ Finished("WeatherCollection")' /\ Finished("NewsCollection")'

C22_NoMemoryBetweenRuns == [][C22_step]_vars

\* a Run that follows a failed Run has executed both gathering tasks again and
\* is at the Condition, the synthesis not yet ticked
C22_Witness ==
  /\ pc = At("tick", "DataReadyCheck")
  /\ Root = "FAILURE"
  /\ calls["WeatherAgent"] = 1 /\ calls["NewsAgent"] = 1
  /\ status["BriefingSynthesis"] = "INVALID"


\* C23: between Runs, each reference task's state agrees with its slot: the
\* slot is unpopulated exactly when the task's state has no record, and
\* otherwise the slot holds the payload the task recorded last (for the
\* briefing slot, the text inside it)
Recorded(agent, key) == key \in DOMAIN agent_state[agent]

SlotAgrees(agent, key) ==
  IF Recorded(agent, key)
  THEN Truthy(shared_state[key]) /\ shared_state[key] = agent_state[agent][key]
  ELSE ~Truthy(shared_state[key])

BriefingAgrees ==
  IF Recorded("SynthesizerAgent", "briefing")
  THEN /\ Truthy(shared_state.briefing)
       /\ "briefing" \in DOMAIN shared_state.briefing
       /\ shared_state.briefing.briefing = agent_state["SynthesizerAgent"].briefing
  ELSE ~Truthy(shared_state.briefing)

C23_StateAgreesWithSlot ==
  pc = Idle
    => /\ SlotAgrees("WeatherAgent", "weather_data")
       /\ SlotAgrees("NewsAgent", "news_data")
       /\ BriefingAgrees

\* a Run whose synthesis raised after an earlier Run's synthesis succeeded:
\* state and slot both still hold the earlier briefing
C23_Witness ==
  /\ RunEnded /\ Root = "FAILURE"
  /\ last_update.node = "BriefingSynthesis" /\ last_update.raised
  /\ Recorded("SynthesizerAgent", "briefing") /\ Truthy(shared_state.briefing)
  /\ Recorded("WeatherAgent", "weather_data") /\ Recorded("NewsAgent", "news_data")

====
